---- MODULE Spec2Model ----
(***************************************************************************)
(* Model of lowest_price_5star.js: the stay-window selection               *)
(* (withinThisYearFiveNights), the price / provider extraction of a row,   *)
(* the dedupe-lowest-sort reduction, and the control flow of               *)
(* findLowestPrice against the page-automation collaborator.               *)
(*                                                                         *)
(* Time is counted in ticks since 1970-01-01T00:00Z; one day is DayTicks   *)
(* ticks (the source's 86400000 ms).  The local time zone is a fixed       *)
(* offset tz (in ticks) without daylight saving.                           *)
(***************************************************************************)
EXTENDS Integers, Sequences, FiniteSets, TLC

VARIABLES
    now,        \* new Date() of withinThisYearFiveNights, ticks since epoch
    tz,         \* local time = UTC + tz ticks
    checkin,    \* the --checkin option handed to withinThisYearFiveNights
    win,        \* what withinThisYearFiveNights returned or threw
    wpc,        \* "start" | "done"
    rowText,    \* the inner text of one provider row
    quote,      \* what the loop body made of it
    rpc,        \* "start" | "done"
    providers,  \* the quotes of the row loop, in row order
    result,     \* lowest and all_providers of the result record
    result2,    \* the same fields of a second reduction, of all_providers
    apc,        \* "start" | "aggregated" | "again"
    city,       \* the --city option
    pc,         \* the step findLowestPrice is at, "returned" or "thrown"
    browser,    \* "none" | "open" | "closed"
    attempted,  \* the steps that were run
    failed,     \* the steps in which a call of the collaborator threw
    thrownBy,   \* the step whose error left findLowestPrice
    err,        \* that error
    rowsLeft    \* the turns the row loop still has

wvars == <<now, tz, checkin, win, wpc>>
rvars == <<rowText, quote, rpc>>
avars == <<providers, result, result2, apc>>
fvars == <<city, pc, browser, attempted, failed, thrownBy, err, rowsLeft>>

vars == <<now, tz, checkin, win, wpc, rowText, quote, rpc, providers, result, result2, apc,
          city, pc, browser, attempted, failed, thrownBy, err, rowsLeft>>

----------------------------------------------------------------------------
(* Bounds of the model *)

DayTicks == 4
FirstYear == 2027
NumYears == 2

LastYear == FirstYear + NumYears - 1

TZOffsets == {-1, 0, 1}

----------------------------------------------------------------------------
(* Calendar: what Date's getFullYear / getDay / Date(y, m, d) compute *)

\* days since 1970-01-01 of the civil date y-m-d (m in 1..12)
DaysFromCivil(y, m, d) ==
    LET yy  == IF m <= 2 THEN y - 1 ELSE y
        era == yy \div 400
        yoe == yy - era * 400
        mp  == IF m > 2 THEN m - 3 ELSE m + 9
        doy == (153 * mp + 2) \div 5 + d - 1
        doe == yoe * 365 + yoe \div 4 - yoe \div 100 + doy
    IN  era * 146097 + doe - 719468

\* the civil date <<year, month, day>> of the day z (days since 1970-01-01)
CivilFromDays(z) ==
    LET zz  == z + 719468
        era == zz \div 146097
        doe == zz - era * 146097
        yoe == (doe - doe \div 1460 + doe \div 36524 - doe \div 146096) \div 365
        doy == doe - (365 * yoe + yoe \div 4 - yoe \div 100)
        mp  == (5 * doy + 2) \div 153
        m   == IF mp < 10 THEN mp + 3 ELSE mp - 9
    IN  << yoe + era * 400 + (IF m <= 2 THEN 1 ELSE 0), m, doy - (153 * mp + 2) \div 5 + 1 >>

\* civil year of the day z
YearOfDay(z) == CivilFromDays(z)[1]

\* d.getFullYear(): the year of the instant t in local time
getFullYear(t, z) == YearOfDay((t + z) \div DayTicks)

\* d.getDay(): 0 = Sunday .. 6 = Saturday, in local time (1970-01-01 was a Thursday)
getDay(t, z) == (((t + z) \div DayTicks) + 4) % 7

\* new Date(y, monthIndex, d): local midnight of that civil date
LocalDate(y, monthIndex, d, z) == DaysFromCivil(y, monthIndex + 1, d) * DayTicks - z

\* new Date("YYYY-MM-DD"): a date-only ISO string is UTC midnight;
\* anything unparseable is the Invalid Date (time value NaN)
ParseDate(c) ==
    IF c.kind = "date"
    THEN [nan |-> FALSE, t |-> DaysFromCivil(c.y, c.m, c.d) * DayTicks]
    ELSE [nan |-> TRUE, t |-> 0]

\* Math.ceil(x / 86400000) for x > 0
CeilDays(x) == (x + DayTicks - 1) \div DayTicks

----------------------------------------------------------------------------
(* withinThisYearFiveNights *)

Thrown(msg) == [kind |-> "error", message |-> msg]
Window(i, o, fb, sh) ==
    [kind |-> "ok", inDate |-> i, outDate |-> o, fallback |-> fb, shifted |-> sh]

\* if (checkinStr): undefined and "" are falsy
Truthy(c) == c.kind \notin {"absent", "empty"}

ExplicitWindowAllowNow(nw, z, c) ==
    LET parsed == ParseDate(c)
        inDate == parsed.t
    IN  IF parsed.nan THEN Thrown("invalid")
        ELSE IF inDate < nw THEN Thrown("past")
        ELSE IF getFullYear(inDate, z) # getFullYear(nw, z) THEN Thrown("year")
        ELSE Window(inDate, inDate + 5 * DayTicks, FALSE, FALSE)

\* lines 32-41: the supplied check-in
ExplicitWindow(nw, z, c) ==
    LET parsed == ParseDate(c)
        inDate == parsed.t
    IN  IF parsed.nan THEN Thrown("invalid")
        ELSE IF inDate <= nw THEN Thrown("past")
        ELSE IF getFullYear(inDate, z) # getFullYear(nw, z) THEN Thrown("year")
        ELSE Window(inDate, inDate + 5 * DayTicks, FALSE, FALSE)

FallbackDateDec31(currentYear, z) == LocalDate(currentYear, 11, 31, z)

\* line 51: new Date(currentYear, 11, 10)
FallbackDate(currentYear, z) == LocalDate(currentYear, 11, 10, z)

\* lines 44-61: the auto-picked check-in
AutoWindow(nw, z) ==
    LET currentYear  == getFullYear(nw, z)
        earliest     == nw + 14 * DayTicks
        MON          == 1
        daysUntilMon == (MON - getDay(earliest, z) + 7) % 7
        monday       == earliest + daysUntilMon * DayTicks
        fb           == getFullYear(monday, z) # currentYear
        inDate       == IF fb THEN FallbackDate(currentYear, z) ELSE monday
        outDate      == inDate + 5 * DayTicks
        lastDay      == LocalDate(currentYear, 11, 31, z)
        shiftDays    == CeilDays(outDate - lastDay)
    IN  IF outDate > lastDay
        THEN Window(inDate - shiftDays * DayTicks, outDate - shiftDays * DayTicks,
                    fb, TRUE)
        ELSE Window(inDate, outDate, fb, FALSE)

withinThisYearFiveNights(nw, z, c) ==
    IF Truthy(c) THEN ExplicitWindow(nw, z, c) ELSE AutoWindow(nw, z)

----------------------------------------------------------------------------
(* Specification of the stay-window selection *)

Instants ==
    DaysFromCivil(FirstYear, 1, 1) * DayTicks ..
        DaysFromCivil(LastYear + 1, 1, 1) * DayTicks - 1

SampleMonthDays == {<<1, 1>>, <<6, 15>>, <<12, 27>>, <<12, 31>>}

CheckinStrs ==
    {[kind |-> "garbage"]}
    \cup {[kind |-> "date", y |-> y, m |-> md[1], d |-> md[2]] :
            y \in (FirstYear - 1) .. (LastYear + 1), md \in SampleMonthDays}

NoCheckin == {[kind |-> "absent"], [kind |-> "empty"]}

WInit ==
    /\ now \in Instants
    /\ tz \in TZOffsets
    /\ checkin = [kind |-> "absent"]
    /\ win = [kind |-> "none"]
    /\ wpc = "start"
    /\ rowText = <<>> /\ quote = [kind |-> "none"] /\ rpc = "idle"
    /\ providers = <<>> /\ result = [kind |-> "none"]
    /\ result2 = [kind |-> "none"] /\ apc = "idle"
    /\ city = "Mumbai" /\ pc = "idle" /\ browser = "none" /\ attempted = {}
    /\ failed = {} /\ thrownBy = "none" /\ err = [type |-> "none"] /\ rowsLeft = 0

\* node lowest_price_5star.js --city X
AutoPick ==
    /\ wpc = "start"
    /\ \E c \in NoCheckin :
        /\ checkin' = c
        /\ win' = withinThisYearFiveNights(now, tz, c)
    /\ wpc' = "done"
    /\ UNCHANGED <<now, tz>>
    /\ UNCHANGED <<rvars, avars, fvars>>

\* node lowest_price_5star.js --city X --checkin S
ExplicitPick ==
    /\ wpc = "start"
    /\ \E c \in CheckinStrs :
        /\ checkin' = c
        /\ win' = withinThisYearFiveNights(now, tz, c)
    /\ wpc' = "done"
    /\ UNCHANGED <<now, tz>>
    /\ UNCHANGED <<rvars, avars, fvars>>

WNext == AutoPick \/ ExplicitPick

SpecWindow == WInit /\ [][WNext]_vars

----------------------------------------------------------------------------
(* Claims about the stay window *)

AutoDone == wpc = "done" /\ ~Truthy(checkin)
ExplicitDone == wpc = "done" /\ Truthy(checkin)

\* C1: on the auto-pick path the check-in is at least 14 days after now and
\* check-in and check-out both fall within now's calendar year.
C1_AutoPickAtLeast14DaysInYear ==
    AutoDone =>
        /\ win.kind = "ok"
        /\ win.inDate >= now + 14 * DayTicks
        /\ getFullYear(win.inDate, tz) = getFullYear(now, tz)
        /\ getFullYear(win.outDate, tz) = getFullYear(now, tz)

\* the three reasons withinThisYearFiveNights has to refuse a supplied check-in
C2_Rejected ==
    \/ checkin.kind # "date"
    \/ ParseDate(checkin).t <= now
    \/ getFullYear(ParseDate(checkin).t, tz) # getFullYear(now, tz)

C10_ShiftOnlyOnFallback ==
    AutoDone =>
        /\ win.shifted => win.fallback
        /\ ~win.fallback => ~win.shifted

\* C10 amended: the backward shift happens only on runs that kept the Monday
\* check-in; a December-10 fallback run is never shifted and ends December 15.
C10_ShiftOnlyOnMonday ==
    AutoDone =>
        /\ win.shifted => ~win.fallback
        /\ win.fallback =>
            /\ ~win.shifted
            /\ win.inDate = LocalDate(getFullYear(now, tz), 11, 10, tz)
            /\ win.outDate = LocalDate(getFullYear(now, tz), 11, 15, tz)

\* a kept Monday check-in that was shifted backward
C10_Witness == AutoDone /\ win.shifted /\ ~win.fallback

----------------------------------------------------------------------------
(* Text: a string is a sequence of one-character strings *)

UpperChars == <<"A", "B", "C", "D", "E", "F", "G", "H", "I", "J", "K", "L", "M", "N", "O", "P", "Q", "R", "S", "T", "U", "V", "W", "X", "Y", "Z">>
LowerChars == <<"a", "b", "c", "d", "e", "f", "g", "h", "i", "j", "k", "l", "m", "n", "o", "p", "q", "r", "s", "t", "u", "v", "w", "x", "y", "z">>
DigitChars == <<"0", "1", "2", "3", "4", "5", "6", "7", "8", "9">>

\* the non-ASCII currency signs of the price pattern, as one character each
Rupee == "(rupee)"
Euro  == "(euro)"
Pound == "(pound)"
Yen   == "(yen)"

IndexIn(c, s) == IF \E i \in 1..Len(s) : s[i] = c
                 THEN CHOOSE i \in 1..Len(s) : s[i] = c
                 ELSE 0

LowerChar(c) == IF IndexIn(c, UpperChars) > 0 THEN LowerChars[IndexIn(c, UpperChars)] ELSE c

\* s.toLowerCase()
toLowerCase(s) == [i \in 1..Len(s) |-> LowerChar(s[i])]

\* s.includes(sub)
includes(s, sub) ==
    \E i \in 0..(Len(s) - Len(sub)) : SubSeq(s, i + 1, i + Len(sub)) = sub

\* \s of the pattern and the white space trim() strips
IsSpace(c) == c \in {" ", "\t", "\n"}

\* s.split("\n")[0]
FirstLine(s) ==
    IF \E i \in 1..Len(s) : s[i] = "\n"
    THEN SubSeq(s, 1, (CHOOSE i \in 1..Len(s) :
                          s[i] = "\n" /\ \A j \in 1..(i - 1) : s[j] # "\n") - 1)
    ELSE s

\* s.trim()
trim(s) ==
    IF \A i \in 1..Len(s) : IsSpace(s[i]) THEN <<>>
    ELSE LET a == CHOOSE i \in 1..Len(s) :
                      ~IsSpace(s[i]) /\ \A j \in 1..(i - 1) : IsSpace(s[j])
             b == CHOOSE i \in 1..Len(s) :
                      ~IsSpace(s[i]) /\ \A j \in (i + 1)..Len(s) : IsSpace(s[j])
         IN  SubSeq(s, a, b)

\* line 186-199: the brand list, in its order
Brands == <<
    <<"G", "o", "o", "g", "l", "e">>,
    <<"B", "o", "o", "k", "i", "n", "g", ".", "c", "o", "m">>,
    <<"E", "x", "p", "e", "d", "i", "a">>,
    <<"A", "g", "o", "d", "a">>,
    <<"H", "o", "t", "e", "l", "s", ".", "c", "o", "m">>,
    <<"M", "a", "k", "e", "M", "y", "T", "r", "i", "p">>,
    <<"T", "r", "i", "p", ".", "c", "o", "m">>,
    <<"P", "r", "i", "c", "e", "l", "i", "n", "e">>,
    <<"T", "r", "a", "v", "e", "l", "o", "c", "i", "t", "y">>,
    <<"C", "l", "e", "a", "r", "t", "r", "i", "p">>,
    <<"G", "o", "i", "b", "i", "b", "o">>,
    <<"E", "a", "s", "e", "m", "y", "t", "r", "i", "p">> >>

Unknown == <<"U", "n", "k", "n", "o", "w", "n">>

UnknownHotel == <<"U", "n", "k", "n", "o", "w", "n", " ", "H", "o", "t", "e", "l">>

----------------------------------------------------------------------------
(* parseCurrencyPrice: a currency sign or code, white space, a numeric token *)

Null == [null |-> TRUE]

CurrencySigns == {Rupee, "$", Euro, Pound, Yen}
CurrencyCodes == {<<"u", "s", "d">>, <<"e", "u", "r">>, <<"g", "b", "p">>, <<"j", "p", "y">>, <<"i", "n", "r">>}

IsDigit(c) == IndexIn(c, DigitChars) > 0
DigitVal(c) == IndexIn(c, DigitChars) - 1

\* length of the currency sign or code that starts at text[i], 0 when none does
CurrencyLenAt(text, i) ==
    IF text[i] \in CurrencySigns THEN 1
    ELSE IF i + 2 <= Len(text) /\ toLowerCase(SubSeq(text, i, i + 2)) \in CurrencyCodes
         THEN 3
         ELSE 0

\* \s*: the first index from j on that holds no white space
SkipSpace(text, j) ==
    CHOOSE k \in j..(Len(text) + 1) :
        /\ \A x \in j..(k - 1) : IsSpace(text[x])
        /\ k <= Len(text) => ~IsSpace(text[k])

\* the pattern matches with its first group starting at text[i]
MatchAt(text, i) ==
    LET n == CurrencyLenAt(text, i)
        k == SkipSpace(text, i + n)
    IN  n > 0 /\ k <= Len(text) /\ IsDigit(text[k])

\* the token's class repeats greedily: the last index of the numeric token that starts at text[k]
TokenEnd(text, k) ==
    CHOOSE e \in k..Len(text) :
        /\ \A x \in k..e : IsDigit(text[x]) \/ text[x] \in {",", "."}
        /\ e < Len(text) => ~(IsDigit(text[e + 1]) \/ text[e + 1] \in {",", "."})

\* m[2].replace(/,/g, "")
StripCommas(s) == SelectSeq(s, LAMBDA c : c # ",")

RECURSIVE DigitsValue(_)
DigitsValue(s) ==
    IF s = <<>> THEN 0
    ELSE 10 * DigitsValue(SubSeq(s, 1, Len(s) - 1)) + DigitVal(s[Len(s)])

\* the longest prefix of s that holds digits only
DigitRun(s) ==
    SubSeq(s, 1, CHOOSE n \in 0..Len(s) :
                    /\ \A x \in 1..n : IsDigit(s[x])
                    /\ n < Len(s) => ~IsDigit(s[n + 1]))

\* parseFloat(s) of a string that starts with a digit and holds digits and
\* points: the digits, and the digits after a first point; in hundredths
\* (a third and later fraction digit is below the model's resolution)
parseFloat(s) ==
    LET ip   == DigitRun(s)
        rest == SubSeq(s, Len(ip) + 1, Len(s))
        fr   == IF rest # <<>> /\ rest[1] = "." THEN DigitRun(Tail(rest)) ELSE <<>>
        f1   == IF Len(fr) >= 1 THEN DigitVal(fr[1]) ELSE 0
        f2   == IF Len(fr) >= 2 THEN DigitVal(fr[2]) ELSE 0
    IN  DigitsValue(ip) * 100 + f1 * 10 + f2

\* lines 64-73
parseCurrencyPrice(text) ==
    IF \E i \in 1..Len(text) : MatchAt(text, i)
    THEN LET i == CHOOSE x \in 1..Len(text) :
                      MatchAt(text, x) /\ \A y \in 1..(x - 1) : ~MatchAt(text, y)
             n == CurrencyLenAt(text, i)
             k == SkipSpace(text, i + n)
         IN  [currency |-> SubSeq(text, i, i + n - 1),
              value |-> parseFloat(StripCommas(SubSeq(text, k, TokenEnd(text, k))))]
    ELSE Null

----------------------------------------------------------------------------
(* One provider row: lines 171-225 of findLowestPrice *)

MaxNameLen == 60

\* lines 186-204: the first brand, in list order, that the text mentions
BrandOr(text, providerName) ==
    LET hits == {b \in 1..Len(Brands) :
                    includes(toLowerCase(text), toLowerCase(Brands[b]))}
    IN  IF hits = {} THEN providerName
        ELSE Brands[CHOOSE b \in hits : \A c \in hits : b <= c]

\* lines 184-205
ProviderName(text) ==
    LET providerName == trim(FirstLine(text))
    IN  IF providerName = <<>> \/ Len(providerName) > MaxNameLen
        THEN BrandOr(text, providerName)
        ELSE providerName

Skip == [kind |-> "skip"]

\* lines 178-224; row.locator("a[href]").first is the method itself, not a
\* locator, so link.count() raises a TypeError, caught at line 216: url is null
RowQuote(text) ==
    IF text = <<>> THEN Skip
    ELSE LET price == parseCurrencyPrice(text)
         IN  IF price = Null THEN Skip
             ELSE [kind |-> "quote",
                   q |-> [provider |-> IF ProviderName(text) = <<>> THEN Unknown
                                       ELSE ProviderName(text),
                          price_value |-> price.value,
                          currency |-> price.currency,
                          url |-> Null,
                          raw_text |-> text]]

----------------------------------------------------------------------------
(* Specification of the row extraction: the texts a row may show *)

Pad(n, c) == [i \in 1..n |-> c]

LineEmpty == <<>>
LineSpaces == <<" ", " ">>
LineExpedia == <<"E", "x", "p", "e", "d", "i", "a">>
LineAgodaPadded == <<" ", "A", "g", "o", "d", "a", " ", "\t">>
LineA == <<"A">>
Line60 == <<"H", "o", "t", "e", "l", "s", ".", "c", "o", "m">> \o Pad(MaxNameLen - 10, "x")
Line61 == Pad(MaxNameLen + 1, "x")
Line61Brands == <<"T", "r", "i", "p", ".", "c", "o", "m", " ", "o", "r", " ", "M", "A", "K", "E", "M", "Y", "T", "R", "I", "P">> \o Pad(MaxNameLen - 21, "x")
TailDollar == <<"$", "1", "0", "0">>
TailUsd == <<"u", "s", "d", " ", "9", "0">>
TailNoPrice == <<"n", "o", " ", "p", "r", "i", "c", "e", " ", "h", "e", "r", "e">>
TailCodeNoDigit == <<"E", "U", "R", " ", "x", "9">>
TailDollarGoogle == <<"$", " ", "8", "0", ".", "5", " ", "v", "i", "a", " ", "G", "O", "O", "G", "L", "E">>
TailRupee == <<Rupee>> \o <<"1", ",", "2", "3", "4", ".", "5", " ", "B", "o", "o", "k", "i", "n", "g", ".", "c", "o", "m">>

FirstLines ==
    {LineEmpty, LineSpaces, LineExpedia, LineAgodaPadded, LineA, Line60, Line61,
     Line61Brands}
Tails == {<<>>, TailDollar, TailUsd, TailNoPrice, TailCodeNoDigit, TailDollarGoogle,
          TailRupee}
Joiners == {"\n", " "}

Fragments == {f \o <<j>> \o t : f \in FirstLines, j \in Joiners, t \in Tails}

RInit ==
    /\ now = 0 /\ tz = 0 /\ checkin = [kind |-> "absent"]
    /\ win = [kind |-> "none"] /\ wpc = "idle"
    /\ rowText \in Fragments
    /\ quote = [kind |-> "none"]
    /\ rpc = "start"
    /\ providers = <<>> /\ result = [kind |-> "none"]
    /\ result2 = [kind |-> "none"] /\ apc = "idle"
    /\ city = "Mumbai" /\ pc = "idle" /\ browser = "none" /\ attempted = {}
    /\ failed = {} /\ thrownBy = "none" /\ err = [type |-> "none"] /\ rowsLeft = 0

\* one turn of the loop of lines 170-225 on a row whose text was read
ExtractRow ==
    /\ rpc = "start"
    /\ quote' = RowQuote(rowText)
    /\ rpc' = "done"
    /\ UNCHANGED rowText
    /\ UNCHANGED <<wvars, avars, fvars>>

RNext == ExtractRow

SpecRows == RInit /\ [][RNext]_vars

\* C9: a fragment that yields a quote gets as provider its trimmed first line
\* when that is non-empty and at most 60 characters; otherwise the first brand
\* of the list that the fragment mentions, whatever the case; otherwise "Unknown".
C9_ProviderName ==
    (rpc = "done" /\ quote.kind = "quote") =>
        LET first == trim(FirstLine(rowText))
            hits  == {b \in 1..Len(Brands) :
                         includes(toLowerCase(rowText), toLowerCase(Brands[b]))}
        IN  quote.q.provider =
                IF first # <<>> /\ Len(first) <= 60 THEN first
                ELSE IF hits # {} THEN Brands[CHOOSE b \in hits : \A c \in hits : b <= c]
                ELSE Unknown


----------------------------------------------------------------------------
(* Deduplicate by provider, lowest, sort: lines 227-252 of findLowestPrice *)

\* byProvider is a Map: a sequence of [key, val] in the order the keys were
\* first set; set() on a key it has keeps the key's place
Has(m, key) == \E i \in 1..Len(m) : m[i].key = key
Get(m, key) == m[CHOOSE i \in 1..Len(m) : m[i].key = key].val
MapSet(m, key, p) ==
    IF Has(m, key)
    THEN [i \in 1..Len(m) |-> IF m[i].key = key THEN [key |-> key, val |-> p] ELSE m[i]]
    ELSE Append(m, [key |-> key, val |-> p])

\* line 230: (p.provider || "Unknown").trim()
KeyOf(p) == trim(IF p.provider = <<>> THEN Unknown ELSE p.provider)

ReplacesOnTie(m, p) ==
    ~Has(m, KeyOf(p)) \/ p.price_value <= Get(m, KeyOf(p)).price_value

\* line 231: the quote p takes its provider's place in the map
Replaces(m, p) ==
    ~Has(m, KeyOf(p)) \/ p.price_value < Get(m, KeyOf(p)).price_value

\* lines 228-234
RECURSIVE ByProvider(_)
ByProvider(ps) ==
    IF ps = <<>> THEN <<>>
    ELSE LET m == ByProvider(SubSeq(ps, 1, Len(ps) - 1))
             p == ps[Len(ps)]
         IN  IF Replaces(m, p) THEN MapSet(m, KeyOf(p), p) ELSE m

\* line 235: [...byProvider.values()]
Deduped(ps) == LET m == ByProvider(ps) IN [i \in 1..Len(m) |-> m[i].val]

RECURSIVE ReduceMin(_, _)
ReduceMin(min, rest) ==
    IF rest = <<>> THEN min
    ELSE ReduceMin(IF rest[1].price_value < min.price_value THEN rest[1] ELSE min,
                   Tail(rest))

RECURSIVE ReduceLastMin(_, _)
ReduceLastMin(min, rest) ==
    IF rest = <<>> THEN min
    ELSE ReduceLastMin(IF rest[1].price_value <= min.price_value THEN rest[1] ELSE min,
                       Tail(rest))

LowestLastMin(deduped) ==
    IF Len(deduped) > 0 THEN ReduceLastMin(deduped[1], deduped) ELSE Null

\* lines 236-239
Lowest(deduped) ==
    IF Len(deduped) > 0 THEN ReduceMin(deduped[1], deduped) ELSE Null

\* p goes behind every quote that is not dearer than it
InsertStable(sorted, p) ==
    LET n == Cardinality({i \in 1..Len(sorted) : sorted[i].price_value <= p.price_value})
    IN  SubSeq(sorted, 1, n) \o <<p>> \o SubSeq(sorted, n + 1, Len(sorted))

\* p goes before the quotes of its own price
InsertBeforeEqual(sorted, p) ==
    LET n == Cardinality({i \in 1..Len(sorted) : sorted[i].price_value < p.price_value})
    IN  SubSeq(sorted, 1, n) \o <<p>> \o SubSeq(sorted, n + 1, Len(sorted))

RECURSIVE SortByPriceUnstable(_)
SortByPriceUnstable(deduped) ==
    IF deduped = <<>> THEN <<>>
    ELSE InsertBeforeEqual(SortByPriceUnstable(SubSeq(deduped, 1, Len(deduped) - 1)),
                           deduped[Len(deduped)])

\* line 251: deduped.sort((a, b) => a.price_value - b.price_value), a stable sort
RECURSIVE SortByPrice(_)
SortByPrice(deduped) ==
    IF deduped = <<>> THEN <<>>
    ELSE InsertStable(SortByPrice(SubSeq(deduped, 1, Len(deduped) - 1)),
                      deduped[Len(deduped)])

\* lines 227-252: the two fields of the result record the quotes decide
Aggregate(ps) ==
    [lowest |-> Lowest(Deduped(ps)), all_providers |-> SortByPrice(Deduped(ps))]

----------------------------------------------------------------------------
(* Specification of the reduction: the quotes are those the row loop makes *)

MaxQuotes == 3

NameA == <<"A">>
NameB == <<"B">>
Price80 == <<"$", "8", "0">>
Price90 == <<"$", "9", "0">>
Price100 == <<"$", "1", "0", "0">>
NoteX == <<" ", "x">>

QuoteOf(name, price, note) == RowQuote(name \o <<"\n">> \o price \o note).q

AggQuotes ==
    {QuoteOf(n, p, x) : n \in {NameA, NameB}, p \in {Price80, Price90, Price100},
                        x \in {<<>>, NoteX}}

SeqsUpTo(S, n) == UNION {[1..k -> S] : k \in 0..n}

AInit ==
    /\ now = 0 /\ tz = 0 /\ checkin = [kind |-> "absent"]
    /\ win = [kind |-> "none"] /\ wpc = "idle"
    /\ rowText = <<>> /\ quote = [kind |-> "none"] /\ rpc = "idle"
    /\ providers \in SeqsUpTo(AggQuotes, MaxQuotes)
    /\ result = [kind |-> "none"]
    /\ result2 = [kind |-> "none"]
    /\ apc = "start"
    /\ city = "Mumbai" /\ pc = "idle" /\ browser = "none" /\ attempted = {}
    /\ failed = {} /\ thrownBy = "none" /\ err = [type |-> "none"] /\ rowsLeft = 0

\* lines 227-252 on the quotes of the row loop
AggregateQuotes ==
    /\ apc = "start"
    /\ result' = Aggregate(providers)
    /\ apc' = "aggregated"
    /\ UNCHANGED <<providers, result2>>
    /\ UNCHANGED <<wvars, rvars, fvars>>

\* the same lines on their own output
AggregateAgain ==
    /\ apc = "aggregated"
    /\ result2' = Aggregate(result.all_providers)
    /\ apc' = "again"
    /\ UNCHANGED <<providers, result>>
    /\ UNCHANGED <<wvars, rvars, fvars>>

ANext == AggregateQuotes \/ AggregateAgain

SpecAgg == AInit /\ [][ANext]_vars

Aggregated == apc \in {"aggregated", "again"}

\* C3: a non-empty all_providers is sorted ascending by price_value and lowest
\* is its first element, of the minimum amount; with an empty all_providers
\* lowest is null.
C3_SortedAndLowestFirst ==
    Aggregated =>
        LET all == result.all_providers
        IN  IF Len(all) > 0
            THEN /\ \A i, j \in 1..Len(all) :
                        i < j => all[i].price_value <= all[j].price_value
                 /\ result.lowest = all[1]
                 /\ \A i \in 1..Len(providers) :
                        result.lowest.price_value <= providers[i].price_value
            ELSE result.lowest = Null /\ providers = <<>>

\* two providers tie for the lowest price
C3_Witness ==
    /\ Aggregated
    /\ Len(result.all_providers) = 2
    /\ result.all_providers[1].price_value = result.all_providers[2].price_value
    /\ result.lowest.provider = NameB

\* the index of the quote the deduplication has to keep for the provider key:
\* the first among the key's quotes of the least price
KeptIndex(ps, key) ==
    CHOOSE i \in 1..Len(ps) :
        /\ KeyOf(ps[i]) = key
        /\ \A j \in 1..Len(ps) :
            KeyOf(ps[j]) = key =>
                \/ ps[i].price_value < ps[j].price_value
                \/ ps[i].price_value = ps[j].price_value /\ i <= j

ExampleQuotes ==
    << QuoteOf(NameA, Price100, <<>>), QuoteOf(NameB, Price90, <<>>),
       QuoteOf(NameA, Price80, <<>>) >>

\* C4: the deduplication keeps exactly one quote per distinct trimmed provider
\* name, the one of the least price, and the first of them on a tie; the quotes
\* [A 100, B 90, A 80] give [A 80, B 90] with lowest A 80.
C4_OnePerProviderFirstMin ==
    Aggregated =>
        LET all  == result.all_providers
            keys == {KeyOf(providers[i]) : i \in 1..Len(providers)}
        IN  /\ Len(all) = Cardinality(keys)
            /\ \A k \in keys :
                \E i \in 1..Len(all) :
                    /\ all[i] = providers[KeptIndex(providers, k)]
                    /\ \A j \in 1..Len(all) : KeyOf(all[j]) = k => j = i
            /\ providers = ExampleQuotes =>
                /\ all = << QuoteOf(NameA, Price80, <<>>), QuoteOf(NameB, Price90, <<>>) >>
                /\ result.lowest = QuoteOf(NameA, Price80, <<>>)

\* one provider quoted its least price twice, in different rows
C4_Witness ==
    /\ Aggregated
    /\ Len(providers) = 3
    /\ Len(result.all_providers) = 1
    /\ providers[2].price_value = providers[3].price_value
    /\ providers[2].price_value < providers[1].price_value
    /\ providers[2] # providers[3]

\* C5: the reduction run on its own output gives the same all_providers, in
\* the same order, and the same lowest.
C5_Idempotent ==
    apc = "again" =>
        /\ result2.all_providers = result.all_providers
        /\ result2.lowest = result.lowest

\* the second run, after a first run that dropped a quote and met a tie
C5_Witness ==
    /\ apc = "again"
    /\ Len(providers) = 3
    /\ Len(result.all_providers) = 2
    /\ result.all_providers[1].price_value = result.all_providers[2].price_value
    /\ result2 = result


----------------------------------------------------------------------------
(* findLowestPrice: lines 78-253, one action per awaited step or try block *)

MaxRows == 2
RowCap == 80

Steps ==
    << "window", "launch", "newContext", "newPage", "goto", "cookie", "filter",
       "sort", "wait1", "open", "wait2", "name", "rating", "compare", "wait3",
       "count", "rows" >>

StepIndex(s) == CHOOSE i \in 1..Len(Steps) : Steps[i] = s

\* where control goes when the step s is over
After(s) == Steps[StepIndex(s) + 1]

\* the steps wrapped in try { ... } catch {}: lines 100-103, 106-112, 115-119,
\* 142-144, 145-152, 155-160
BestEffortSteps == {"cookie", "filter", "sort", "name", "rating", "compare"}

Terminal == pc \in {"returned", "thrown"}

\* d.toISOString().split("T")[0]: the civil date, in UTC, of the instant t
fmtDate(t) == CivilFromDays(t \div DayTicks)

\* the step ran to its end
Proceed(s) ==
    /\ pc' = After(s)
    /\ attempted' = attempted \cup {s}

\* an awaited call outside any try rejects: the error leaves findLowestPrice
Raise(s, e) ==
    /\ pc' = "thrown"
    /\ attempted' = attempted \cup {s}
    /\ failed' = failed \cup {s}
    /\ thrownBy' = s
    /\ err' = e

CaughtRethrow(s, threw) ==
    IF threw
    THEN Raise(s, [type |-> "collaborator", step |-> s])
    ELSE Proceed(s) /\ UNCHANGED <<failed, thrownBy, err>>

\* try { ... } catch {}: whatever the block threw is dropped
Caught(s, threw) ==
    /\ Proceed(s)
    /\ failed' = IF threw THEN failed \cup {s} ELSE failed
    /\ UNCHANGED <<thrownBy, err>>

\* an awaited call of the collaborator that is in no try block
Await(s) ==
    /\ pc = s
    /\ \E ok \in BOOLEAN :
        IF ok THEN Proceed(s) /\ UNCHANGED <<failed, thrownBy, err>>
        ELSE Raise(s, [type |-> "collaborator", step |-> s])

Cities == {"Mumbai", "Paris"}

RunInstants ==
    {DaysFromCivil(FirstYear, 6, 1) * DayTicks, DaysFromCivil(FirstYear, 12, 20) * DayTicks + 1}

RunCheckins ==
    {[kind |-> "absent"], [kind |-> "garbage"],
     [kind |-> "date", y |-> FirstYear, m |-> 12, d |-> 27]}

RunTexts ==
    { NameA \o <<"\n">> \o Price100, NameB \o <<"\n">> \o Price90, TailNoPrice, <<>> }

FInit ==
    /\ now \in RunInstants /\ tz = 0 /\ checkin \in RunCheckins
    /\ win = [kind |-> "none"] /\ wpc = "idle"
    /\ rowText = <<>> /\ quote = [kind |-> "none"] /\ rpc = "idle"
    /\ providers = <<>> /\ result = [kind |-> "none"]
    /\ result2 = [kind |-> "none"] /\ apc = "idle"
    /\ city \in Cities
    /\ pc = "window"
    /\ browser = "none"
    /\ attempted = {}
    /\ failed = {}
    /\ thrownBy = "none"
    /\ err = [type |-> "none"]
    /\ rowsLeft = 0

Untouched == UNCHANGED <<now, tz, checkin, wpc, rvars, result2, apc, city>>

\* line 79
SelectWindow ==
    /\ pc = "window"
    /\ win' = withinThisYearFiveNights(now, tz, checkin)
    /\ IF win'.kind = "error"
       THEN Raise("window", [type |-> "date", message |-> win'.message])
       ELSE Proceed("window") /\ UNCHANGED <<failed, thrownBy, err>>
    /\ UNCHANGED <<browser, providers, result, rowsLeft>>
    /\ Untouched

\* line 81
Launch ==
    /\ pc = "launch"
    /\ \E ok \in BOOLEAN :
        IF ok THEN /\ browser' = "open"
                   /\ Proceed("launch")
                   /\ UNCHANGED <<failed, thrownBy, err>>
        ELSE /\ Raise("launch", [type |-> "collaborator", step |-> "launch"])
             /\ UNCHANGED browser
    /\ UNCHANGED <<win, providers, result, rowsLeft>>
    /\ Untouched

\* lines 82-88, 97, 122, 135, 162
NewContext == Await("newContext") /\ UNCHANGED <<win, browser, providers, result, rowsLeft>> /\ Untouched
NewPage == Await("newPage") /\ UNCHANGED <<win, browser, providers, result, rowsLeft>> /\ Untouched
Goto == Await("goto") /\ UNCHANGED <<win, browser, providers, result, rowsLeft>> /\ Untouched
Wait1 == Await("wait1") /\ UNCHANGED <<win, browser, providers, result, rowsLeft>> /\ Untouched
Wait2 == Await("wait2") /\ UNCHANGED <<win, browser, providers, result, rowsLeft>> /\ Untouched
Wait3 == Await("wait3") /\ UNCHANGED <<win, browser, providers, result, rowsLeft>> /\ Untouched

\* lines 100-103: count the consent buttons, click the first
AcceptCookies ==
    /\ pc = "cookie"
    /\ \E o \in {"none", "clicked", "count throws", "click throws"} :
        Caught("cookie", o \in {"count throws", "click throws"})
    /\ UNCHANGED <<win, browser, providers, result, rowsLeft>>
    /\ Untouched

\* lines 106-112: three clicks, the first that throws ends the block
ApplyFilter ==
    /\ pc = "filter"
    /\ \E clicks \in 0..3 : Caught("filter", clicks < 3)
    /\ UNCHANGED <<win, browser, providers, result, rowsLeft>>
    /\ Untouched

\* lines 115-119
SortByRating ==
    /\ pc = "sort"
    /\ \E o \in {"no item", "clicked", "sort throws", "count throws", "click throws"} :
        Caught("sort", o \in {"sort throws", "count throws", "click throws"})
    /\ UNCHANGED <<win, browser, providers, result, rowsLeft>>
    /\ Untouched

\* lines 123-133: on any throw the browser is closed (close() itself taken to
\* resolve) and the error is replaced
OpenResult ==
    /\ pc = "open"
    /\ \E o \in {"five-star clicked", "first link clicked", "count throws", "click throws"} :
        IF o \in {"count throws", "click throws"}
        THEN /\ browser' = "closed"
             /\ Raise("open", [type |-> "no result", city |-> city])
        ELSE /\ Proceed("open")
             /\ UNCHANGED <<browser, failed, thrownBy, err>>
    /\ UNCHANGED <<win, providers, result, rowsLeft>>
    /\ Untouched

\* lines 142-144: Locator.first is a method, so .first.innerText is undefined
\* and the call raises a TypeError, caught: hotelName stays "Unknown Hotel"
ReadName ==
    /\ pc = "name"
    /\ Caught("name", TRUE)
    /\ UNCHANGED <<win, browser, providers, result, rowsLeft>>
    /\ Untouched

\* lines 145-152: with a rating node found, .first.innerText() raises the same
\* TypeError: hotelRating stays null
ReadRating ==
    /\ pc = "rating"
    /\ \E o \in {"none", "found", "count throws"} : Caught("rating", o # "none")
    /\ UNCHANGED <<win, browser, providers, result, rowsLeft>>
    /\ Untouched

\* lines 155-160
OpenComparePanel ==
    /\ pc = "compare"
    /\ \E o \in {"none", "clicked", "count throws", "click throws"} :
        Caught("compare", o \in {"count throws", "click throws"})
    /\ UNCHANGED <<win, browser, providers, result, rowsLeft>>
    /\ Untouched

Min(a, b) == IF a < b THEN a ELSE b

\* lines 166-167: rows.count() is awaited outside any try
CountRows ==
    /\ pc = "count"
    /\ \E threw \in BOOLEAN, n \in 0..MaxRows :
        IF threw
        THEN Raise("count", [type |-> "collaborator", step |-> "count"])
             /\ UNCHANGED rowsLeft
        ELSE /\ rowsLeft' = Min(n, RowCap)
             /\ Proceed("count")
             /\ UNCHANGED <<failed, thrownBy, err>>
    /\ UNCHANGED <<win, browser, providers, result>>
    /\ Untouched

\* lines 170-225: one turn of the loop
ReadRow ==
    /\ pc = "rows"
    /\ rowsLeft > 0
    /\ \E threw \in BOOLEAN, t \in RunTexts :
        IF threw
        THEN /\ failed' = failed \cup {"rowtext"}
             /\ UNCHANGED providers
        ELSE /\ providers' = IF RowQuote(t).kind = "quote"
                             THEN Append(providers, RowQuote(t).q)
                             ELSE providers
             /\ UNCHANGED failed
    /\ rowsLeft' = rowsLeft - 1
    /\ UNCHANGED <<pc, attempted, thrownBy, err, win, browser, result>>
    /\ Untouched

\* lines 227-252: reduce, close the browser, return the record
Finish ==
    /\ pc = "rows"
    /\ rowsLeft = 0
    /\ result' = [kind |-> "record",
                  query_city |-> city,
                  checkin |-> fmtDate(win.inDate),
                  checkout |-> fmtDate(win.outDate),
                  nights |-> 5,
                  hotel |-> [name |-> UnknownHotel, rating |-> Null, stars |-> 5,
                             city |-> city],
                  lowest |-> Aggregate(providers).lowest,
                  all_providers |-> Aggregate(providers).all_providers]
    /\ browser' = "closed"
    /\ pc' = "returned"
    /\ attempted' = attempted \cup {"rows"}
    /\ UNCHANGED <<failed, thrownBy, err, win, providers, rowsLeft>>
    /\ Untouched

FNext ==
    \/ SelectWindow \/ Launch \/ NewContext \/ NewPage \/ Goto
    \/ AcceptCookies \/ ApplyFilter \/ SortByRating \/ Wait1 \/ OpenResult
    \/ Wait2 \/ ReadName \/ ReadRating \/ OpenComparePanel \/ Wait3
    \/ CountRows \/ ReadRow \/ Finish

SpecRun == FInit /\ [][FNext]_vars

----------------------------------------------------------------------------
(* Claims about findLowestPrice *)

\* C6: once the browser was launched, it is closed when findLowestPrice is
\* left, by return or by any thrown error.
C6_BrowserClosedOnExit ==
    (Terminal /\ browser # "none") => browser = "closed"

C8_FatalSteps ==
    Terminal =>
        /\ "open" \in failed =>
            pc = "thrown" /\ err = [type |-> "no result", city |-> city]
        /\ failed \cap {"count", "rowtext"} # {} =>
            /\ pc = "returned"
            /\ result.all_providers = <<>>
            /\ result.lowest = Null

====
